---- MODULE Spec2Model ----
(***************************************************************************)
(* Code_Smell_Detector: the metric extractor (ck_extractor.py) and the     *)
(* rule engine (sonar_detector.py).                                        *)
(*                                                                         *)
(* Spec        : detect_smells applied to metrics records drawn from value *)
(*               sets that straddle every threshold of the five rules.     *)
(* SpecExtract : extract_metrics applied to the text of one file, then     *)
(*               detect_smells applied to the record it returns.           *)
(* SpecScan    : extract_metrics with its two brace-scanning loops taken   *)
(*               one character at a time.                                  *)
(* SpecRun     : one run of either script over the projects directory:     *)
(*               every project walked, every file visited, the outputs     *)
(*               written, then build_dataset on the output of              *)
(*               sonar_detector.                                           *)
(***************************************************************************)
EXTENDS Integers, Sequences, FiniteSets, TLC

VARIABLES
    filepath,   \* path of the compilation unit, a sequence of characters
    raw,        \* text of the compilation unit, a sequence of characters
    metrics,    \* the metrics dict handed to detect_smells
    detected,   \* the list returned by the latest call of detect_smells
    first,      \* the list returned by the first call of detect_smells
    calls,      \* number of calls of detect_smells made on this record
    error,      \* "none", or the exception that escaped
    pc,         \* position of the program, see each specification
    spans,      \* the <<start, end>> of each body cut out by the brace scan
                \* (kept by SpecExtract and SpecScan only)
    scan,       \* locals of the brace-scanning loops of extract_metrics
    script,     \* "ck_extractor" | "sonar_detector": the script that runs
    disk,       \* the file system the run meets
    project,    \* index in the sorted list projects of the one being walked
    pending,    \* files of the walked project os.walk has not yielded yet
    results,    \* results of run_on_project
    issues,     \* issues of run_sonar_on_project
    ALL,        \* ALL of ck_extractor, ALL_ISSUES of sonar_detector
    stdout,     \* the WARN lines printed so far, one path each
    written,    \* the output files written so far
    dataset     \* dataset of build_dataset

fileVars == <<filepath, raw, metrics, detected, first, calls, error>>
scanVars == <<spans, scan>>
runVars ==
    <<script, disk, project, pending, results, issues, ALL, stdout, written,
      dataset>>

vars == <<fileVars, scanVars, runVars, pc>>

(***************************************************************************)
(* Bounds of the model.                                                    *)
(***************************************************************************)
\* detect_smells is evaluated at most MaxCalls times on one record.
MaxCalls == 2

\* A source text has at most MaxLines lines.
MaxLines == 3

\* A source text scanned one character at a time has at most MaxScanLines
\* lines.
MaxScanLines == 2

\* The projects directory holds at most MaxFiles .java files.
MaxFiles == 2

(***************************************************************************)
(* Inputs of the rule engine: every value set holds both sides of each     *)
(* threshold the metric is compared with.                                  *)
(***************************************************************************)
LOCVals            == {0, 100, 101, 200}
WMCVals            == {0, 6, 12, 13, 15, 16, 20, 21}
FIELDSVals         == {0, 4, 5, 12, 13, 15}
METHODSVals        == {0, 5, 6}
PRIVATE_METHODSVals == {0, 2, 3}
ATFDVals           == {0, 3, 4, 5, 6, 12, 13}
TCCVals            == {0, 1, 2}
MAX_METHOD_LOCVals == {0, 3, 4, 40, 41}

\* The keys detect_smells reads from the dict (a missing one raises KeyError).
MetricKeys ==
    {"LOC", "WMC", "FIELDS", "METHODS", "PRIVATE_METHODS", "CBO", "ATFD",
     "TCC", "MAX_METHOD_LOC", "LCOM", "class_name"}

Records ==
    [class_name : {<<"O", "r", "d", "e", "r">>},
     LOC : LOCVals, WMC : WMCVals, FIELDS : FIELDSVals, METHODS : METHODSVals,
     PRIVATE_METHODS : PRIVATE_METHODSVals, CBO : {0}, ATFD : ATFDVals,
     TCC : TCCVals, MAX_METHOD_LOC : MAX_METHOD_LOCVals, LCOM : {0}]

(***************************************************************************)
(* sonar_detector.detect_smells                                            *)
(***************************************************************************)
\* The five conditions.  `x > y * 0.5` and `x > y * 0.6` compare an int with a
\* binary64 product; for all 0 <= x < 2000, 0 <= y < 3000 the comparison
\* equals the exact one in tenths, which is what is written here.
\* Mutant: the thresholds of the module docstring,
\* "WMC > 20 AND LOC > 150 AND ATFD > 5".
GodClassRule_docstring(m) ==
    m.WMC > 20 /\ m.LOC > 150 /\ m.ATFD > 5

\* Mutant: WMC >= 15 for WMC > 15.
GodClassRule_ge(m) ==
    m.WMC >= 15 /\ m.LOC > 100 /\ (m.FIELDS > 12 \/ m.ATFD > 4)

GodClassRule(m) ==
    m.WMC > 15 /\ m.LOC > 100 /\ (m.FIELDS > 12 \/ m.ATFD > 4)

\* Mutant: >= 40 for > 40.
LongMethodRule_ge(m) == m.MAX_METHOD_LOC >= 40

LongMethodRule(m) == m.MAX_METHOD_LOC > 40

\* Mutant: the MAX_METHOD_LOC conjunct is missing.
DataClassRule_nomml(m) ==
    m.FIELDS >= 5 /\ m.METHODS > 0 /\ m.WMC <= m.FIELDS * 2 + 2

\* Mutant: WMC < for WMC <=.
DataClassRule_strict(m) ==
    m.FIELDS >= 5 /\ m.METHODS > 0 /\ m.WMC < m.FIELDS * 2 + 2
        /\ m.MAX_METHOD_LOC <= 3

DataClassRule(m) ==
    m.FIELDS >= 5 /\ m.METHODS > 0 /\ m.WMC <= m.FIELDS * 2 + 2
        /\ m.MAX_METHOD_LOC <= 3

\* Mutant: >= for > in the ratio test.
DeadCodeRule_half(m) ==
    m.PRIVATE_METHODS >= 3 /\ m.METHODS > 0
        /\ m.PRIVATE_METHODS * 10 >= m.METHODS * 5

DeadCodeRule(m) ==
    m.PRIVATE_METHODS >= 3 /\ m.METHODS > 0
        /\ m.PRIVATE_METHODS * 10 > m.METHODS * 5

\* Mutant: the ratio conjunct is missing.
FeatureEnvyRule_noratio(m) ==
    m.ATFD >= 4 /\ m.TCC >= 1 /\ m.WMC > 0

\* Mutant: the WMC > 0 conjunct is missing.
FeatureEnvyRule_nowmc(m) ==
    m.ATFD >= 4 /\ m.TCC >= 1 /\ m.ATFD * 10 > m.WMC * 6

FeatureEnvyRule(m) ==
    m.ATFD >= 4 /\ m.TCC >= 1 /\ m.WMC > 0 /\ m.ATFD * 10 > m.WMC * 6

\* The dicts appended to `detected`.  "text" is the formatted message: its
\* label followed by the values substituted into the format string, in order.
GodClassFinding(m) ==
    [rule |-> "java:S2095", type |-> "CODE_SMELL", severity |-> "MAJOR",
     text |-> <<"GodClass", m.class_name, m.WMC, m.LOC, m.FIELDS>>,
     smell_label |-> "GodClass"]

LongMethodFinding(m) ==
    [rule |-> "java:S1067", type |-> "CODE_SMELL", severity |-> "MAJOR",
     text |-> <<"LongMethod", m.class_name, m.MAX_METHOD_LOC>>,
     smell_label |-> "LongMethod"]

\* Mutant: the severity follows the number of fields.
DataClassFinding_graded(m) ==
    [rule |-> "java:S2093", type |-> "CODE_SMELL",
     severity |-> IF m.FIELDS > 12 THEN "MAJOR" ELSE "MINOR",
     text |-> <<"DataClass", m.class_name, m.FIELDS, m.WMC>>,
     smell_label |-> "DataClass"]

DataClassFinding(m) ==
    [rule |-> "java:S2093", type |-> "CODE_SMELL", severity |-> "MINOR",
     text |-> <<"DataClass", m.class_name, m.FIELDS, m.WMC>>,
     smell_label |-> "DataClass"]

DeadCodeFinding(m) ==
    [rule |-> "java:S1604", type |-> "CODE_SMELL", severity |-> "MINOR",
     text |-> <<"DeadCode", m.class_name, m.PRIVATE_METHODS, m.METHODS>>,
     smell_label |-> "DeadCode"]

FeatureEnvyFinding(m) ==
    [rule |-> "java:R1031", type |-> "CODE_SMELL", severity |-> "MAJOR",
     text |-> <<"FeatureEnvy", m.class_name, m.ATFD, m.TCC, m.WMC>>,
     smell_label |-> "FeatureEnvy"]

\* One `if ...: detected.append({...})` statement.
AppendIf(cond, d, finding) == IF cond THEN Append(d, finding) ELSE d

\* The statements of detect_smells run on the list d0.
RunRules(d0, m) ==
    LET d1 == AppendIf(GodClassRule(m), d0, GodClassFinding(m))
        d2 == AppendIf(LongMethodRule(m), d1, LongMethodFinding(m))
        d3 == AppendIf(DataClassRule(m), d2, DataClassFinding(m))
        d4 == AppendIf(DeadCodeRule(m), d3, DeadCodeFinding(m))
        d5 == AppendIf(FeatureEnvyRule(m), d4, FeatureEnvyFinding(m))
    IN  d5

\* Mutant: Feature Envy is evaluated before God Class.
detect_smells_envy_first(m) ==
    LET d1 == AppendIf(FeatureEnvyRule(m), <<>>, FeatureEnvyFinding(m))
        d2 == AppendIf(GodClassRule(m), d1, GodClassFinding(m))
        d3 == AppendIf(LongMethodRule(m), d2, LongMethodFinding(m))
        d4 == AppendIf(DataClassRule(m), d3, DataClassFinding(m))
        d5 == AppendIf(DeadCodeRule(m), d4, DeadCodeFinding(m))
    IN  d5

\* Mutant: the list is not created afresh, it is the one of the previous call.
detect_smells_shared_list(m) == RunRules(detected, m)

\* detected = [] ... return detected
detect_smells(m) == RunRules(<<>>, m)

(***************************************************************************)
(* Inputs of the extractor: texts of 1..MaxLines lines, each line one of   *)
(* LineKinds, joined by "\n".  The text of one empty line is the empty     *)
(* compilation unit.                                                       *)
(***************************************************************************)
\* ""
LnEmpty ==
    <<>>

\* "// x"
LnLineComment ==
    <<"/", "/", " ", "x">>

\* " * x"
LnStarComment ==
    <<" ", "*", " ", "x">>

\* "public class Box {"
LnClass ==
    <<"p", "u", "b", "l", "i", "c", " ", "c", "l", "a", "s", "s", " ", "B",
      "o", "x", " ", "{">>

\* "  private int n;"
LnField ==
    <<" ", " ", "p", "r", "i", "v", "a", "t", "e", " ", "i", "n", "t", " ",
      "n", ";">>

\* "  public int m() {"
LnMethodOpen ==
    <<" ", " ", "p", "u", "b", "l", "i", "c", " ", "i", "n", "t", " ", "m",
      "(", ")", " ", "{">>

\* "    o.getN();"
LnGetterCall ==
    <<" ", " ", " ", " ", "o", ".", "g", "e", "t", "N", "(", ")", ";">>

\* "  }"
LnClose ==
    <<" ", " ", "}">>

\* "  private int p() { return n; }"
LnPrivateMethod ==
    <<" ", " ", "p", "r", "i", "v", "a", "t", "e", " ", "i", "n", "t", " ",
      "p", "(", ")", " ", "{", " ", "r", "e", "t", "u", "r", "n", " ", "n",
      ";", " ", "}">>

\* "/* x"
LnBlockComment ==
    <<"/", "*", " ", "x">>

\* "  public int e() {}"
LnEmptyMethod ==
    <<" ", " ", "p", "u", "b", "l", "i", "c", " ", "i", "n", "t", " ", "e",
      "(", ")", " ", "{", "}">>

\* "class Sub extends Box {"
LnSubclass ==
    <<"c", "l", "a", "s", "s", " ", "S", "u", "b", " ", "e", "x", "t", "e",
      "n", "d", "s", " ", "B", "o", "x", " ", "{">>

\* "  @Override public int a() {}"
LnAnnotatedMethod ==
    <<" ", " ", "@", "O", "v", "e", "r", "r", "i", "d", "e", " ", "p", "u",
      "b", "l", "i", "c", " ", "i", "n", "t", " ", "a", "(", ")", " ", "{",
      "}">>

\* "  public int t() throws E {}"
LnThrowsMethod ==
    <<" ", " ", "p", "u", "b", "l", "i", "c", " ", "i", "n", "t", " ", "t",
      "(", ")", " ", "t", "h", "r", "o", "w", "s", " ", "E", " ", "{", "}">>

LineKinds ==
    {LnEmpty, LnLineComment, LnStarComment, LnClass,
     LnField, LnMethodOpen, LnGetterCall, LnClose,
     LnPrivateMethod, LnBlockComment, LnEmptyMethod, LnSubclass}

RECURSIVE Join(_)
Join(ls) == IF Len(ls) = 1 THEN ls[1] ELSE ls[1] \o <<"\n">> \o Join(Tail(ls))

\* Compilation units beyond the lines of LineKinds.
\* One field name declared twice, as by a class and a class nested in it,
\* and two methods, one of them reading the field.
UnitTwins == Join(<<LnField, LnField, LnPrivateMethod, LnEmptyMethod>>)

\* A method whose header follows an annotation on its line.
UnitAnnotated == Join(<<LnAnnotatedMethod>>)

\* A method whose header has a throws clause.
UnitThrows == Join(<<LnThrowsMethod>>)

Units == {UnitTwins, UnitAnnotated, UnitThrows}

Texts ==
    {Join(ls) : ls \in UNION {[1..n -> LineKinds] : n \in 1..MaxLines}}
        \cup Units

FilePaths == {<<"p", "r", "o", "j", "/", "U", "n", "i", "t", ".", "j", "a", "v", "a">>}

(***************************************************************************)
(* Text: a str is a sequence of one-character strings.                     *)
(***************************************************************************)
Lower ==
    {"a", "b", "c", "d", "e", "f", "g", "h", "i", "j", "k", "l", "m", "n",
     "o", "p", "q", "r", "s", "t", "u", "v", "w", "x", "y", "z"}
Upper ==
    {"A", "B", "C", "D", "E", "F", "G", "H", "I", "J", "K", "L", "M", "N",
     "O", "P", "Q", "R", "S", "T", "U", "V", "W", "X", "Y", "Z"}
Digit == {"0", "1", "2", "3", "4", "5", "6", "7", "8", "9"}

\* \w
WordChars == Lower \cup Upper \cup Digit \cup {"_"}

\* \s, and what str.strip() removes
Space == {" ", "\t", "\n"}

\* [\w<>\[\]]
TypeChars == WordChars \cup {"<", ">", "[", "]"}

\* [\w<>\[\],\s]
FieldTypeChars == WordChars \cup {"<", ">", "[", "]", ","} \cup Space

\* [\w.]
PackageChars == WordChars \cup {"."}

KwPublic    == <<"p", "u", "b", "l", "i", "c">>
KwPrivate   == <<"p", "r", "i", "v", "a", "t", "e">>
KwProtected == <<"p", "r", "o", "t", "e", "c", "t", "e", "d">>
KwClass     == <<"c", "l", "a", "s", "s">>
KwPackage   == <<"p", "a", "c", "k", "a", "g", "e">>
KwExtends   == <<"e", "x", "t", "e", "n", "d", "s">>
KwThis      == <<"t", "h", "i", "s">>
KwSuper     == <<"s", "u", "p", "e", "r">>
KwSystem    == <<"S", "y", "s", "t", "e", "m">>
KwMath      == <<"M", "a", "t", "h">>
KwGet       == <<"g", "e", "t">>
KwSet       == <<"s", "e", "t">>
DotJava     == <<".", "j", "a", "v", "a">>
LineComment == <<"/", "/">>
Star        == <<"*">>
BlockOpen   == <<"/", "*">>

\* (public|private|protected)
Visibility == {KwPublic, KwPrivate, KwProtected}

\* The names removed from the referenced types.
builtin ==
    {<<"i", "n", "t">>, <<"l", "o", "n", "g">>,
     <<"d", "o", "u", "b", "l", "e">>, <<"f", "l", "o", "a", "t">>,
     <<"b", "o", "o", "l", "e", "a", "n">>, <<"c", "h", "a", "r">>,
     <<"b", "y", "t", "e">>, <<"s", "h", "o", "r", "t">>,
     <<"v", "o", "i", "d">>, <<"S", "t", "r", "i", "n", "g">>,
     <<"O", "b", "j", "e", "c", "t">>, <<"S", "y", "s", "t", "e", "m">>,
     <<"M", "a", "t", "h">>, <<"I", "n", "t", "e", "g", "e", "r">>,
     <<"L", "o", "n", "g">>, <<"D", "o", "u", "b", "l", "e">>,
     <<"F", "l", "o", "a", "t">>, <<"B", "o", "o", "l", "e", "a", "n">>,
     <<"C", "o", "m", "p", "a", "r", "a", "b", "l", "e">>,
     <<"I", "t", "e", "r", "a", "b", "l", "e">>,
     <<"E", "x", "c", "e", "p", "t", "i", "o", "n">>,
     <<"R", "u", "n", "t", "i", "m", "e", "E", "x", "c", "e", "p", "t", "i", "o", "n">>}

RECURSIVE RunEnd(_, _, _)
\* A greedy run C* from position i: the first position >= i that holds no
\* character of C (Len(s) + 1 when the run reaches the end).
RunEnd(s, i, C) ==
    IF i > Len(s) \/ s[i] \notin C THEN i ELSE RunEnd(s, i + 1, C)

RECURSIVE RunStart(_, _, _)
\* The first position of the run of characters of C that ends at position i
\* (i + 1 when s[i] is not in C).
RunStart(s, i, C) ==
    IF i < 1 \/ s[i] \notin C THEN i + 1 ELSE RunStart(s, i - 1, C)

RECURSIVE Find(_, _, _)
\* The first position >= i holding character c (Len(s) + 1 when none).
Find(s, i, c) == IF i > Len(s) \/ s[i] = c THEN i ELSE Find(s, i + 1, c)

\* The literal lit stands at position i of s.
LitAt(s, i, lit) ==
    /\ i >= 1
    /\ i + Len(lit) - 1 <= Len(s)
    /\ SubSeq(s, i, i + Len(lit) - 1) = lit

\* s[i] exists and equals c
CharAt(s, i, c) == i >= 1 /\ i <= Len(s) /\ s[i] = c

\* sub in s
Contains(s, sub) == \E i \in 1..(Len(s) + 1) : LitAt(s, i, sub)

\* s.startswith(prefix)
startswith(s, prefix) == LitAt(s, 1, prefix)

\* s.strip()
strip(s) ==
    LET a == RunEnd(s, 1, Space)
        b == RunStart(s, Len(s), Space) - 1
    IN  SubSeq(s, a, b)

RECURSIVE SplitFrom(_, _)
SplitFrom(s, i) ==
    LET e == Find(s, i, "\n")
    IN  IF e > Len(s)
          THEN <<SubSeq(s, i, Len(s))>>
          ELSE <<SubSeq(s, i, e - 1)>> \o SplitFrom(s, e + 1)

\* s.split("\n")
split(s) == SplitFrom(s, 1)

RECURSIVE RemoveAll(_, _)
\* s.replace(sub, "")
RemoveAll(s, sub) ==
    IF s = <<>> THEN <<>>
    ELSE IF LitAt(s, 1, sub) THEN RemoveAll(SubSeq(s, Len(sub) + 1, Len(s)), sub)
    ELSE <<s[1]>> \o RemoveAll(SubSeq(s, 2, Len(s)), sub)

\* os.path.basename(path)
basename(path) ==
    LET slashes == {i \in 1..Len(path) : path[i] = "/"}
        last == IF slashes = {} THEN 0
                ELSE CHOOSE i \in slashes : \A j \in slashes : j <= i
    IN  SubSeq(path, last + 1, Len(path))

\* ^ under re.MULTILINE
LineStart(s, i) == i = 1 \/ (i >= 2 /\ i <= Len(s) + 1 /\ s[i - 1] = "\n")

NoMatch == [end |-> 0]

(***************************************************************************)
(* ck_extractor.extract_metrics                                            *)
(***************************************************************************)
\* Mutant: blank lines are not skipped.
IsCodeLine_blank_counted(line) ==
    LET stripped == strip(line)
    IN  ~(startswith(stripped, LineComment) \/ startswith(stripped, Star)
            \/ startswith(stripped, BlockOpen))

\* Mutant: a line that opens a block comment is counted.
IsCodeLine_block_counted(line) ==
    LET stripped == strip(line)
    IN  /\ stripped # <<>>
        /\ ~(startswith(stripped, LineComment) \/ startswith(stripped, Star))

\* The test of the LOC loop: the line is counted.
IsCodeLine(line) ==
    LET stripped == strip(line)
    IN  /\ stripped # <<>>
        /\ ~(startswith(stripped, LineComment) \/ startswith(stripped, Star)
               \/ startswith(stripped, BlockOpen))

\* loc after the loop over lines
CountLOC(lines) == Cardinality({i \in DOMAIN lines : IsCodeLine(lines[i])})

\* public\s+class\s+(\w+) matched at position i: end is the position after
\* the match, name is group 1.
ClassAt(s, i) ==
    LET b == i + Len(KwPublic)
        c == RunEnd(s, b, Space)
        d == c + Len(KwClass)
        e == RunEnd(s, d, Space)
        f == RunEnd(s, e, WordChars)
    IN  IF LitAt(s, i, KwPublic) /\ c > b /\ LitAt(s, c, KwClass) /\ e > d /\ f > e
          THEN [end |-> f, name |-> SubSeq(s, e, f - 1)]
          ELSE NoMatch

\* package\s+([\w.]+) matched at position i
PackageAt(s, i) ==
    LET b == i + Len(KwPackage)
        c == RunEnd(s, b, Space)
        d == RunEnd(s, c, PackageChars)
    IN  IF LitAt(s, i, KwPackage) /\ c > b /\ d > c
          THEN [end |-> d, name |-> SubSeq(s, c, d - 1)]
          ELSE NoMatch

\* re.search: the leftmost of the positions where the pattern matches, 0 when
\* there is none.
Leftmost(hits) ==
    IF hits = {} THEN 0 ELSE CHOOSE i \in hits : \A j \in hits : i <= j

\* classname
ClassName(path, s) ==
    LET i == Leftmost({j \in 1..Len(s) : ClassAt(s, j).end # 0})
    IN  IF i # 0 THEN ClassAt(s, i).name ELSE RemoveAll(basename(path), DotJava)

\* package
PackageName(s) ==
    LET i == Leftmost({j \in 1..Len(s) : PackageAt(s, j).end # 0})
    IN  IF i # 0 THEN PackageAt(s, i).name ELSE <<>>

\* ^\s+private\s+\w+[\w<>\[\],\s]*\s+(\w+)\s*[=;] matched at position i.
\* Every character between the type's first letter and the closing = or ; is
\* in [\w<>\[\],\s], so the closing character is the first one outside that
\* class; the greedy [..]* leaves to \s+(\w+)\s* the last word before it.
FieldAt(s, i) ==
    LET a == RunEnd(s, i, Space)
        b == a + Len(KwPrivate)
        c == RunEnd(s, b, Space)
        r == RunEnd(s, c, FieldTypeChars)
        e == RunStart(s, r - 1, Space) - 1
        n == RunStart(s, e, WordChars)
    IN  IF /\ LineStart(s, i) /\ a > i /\ LitAt(s, a, KwPrivate) /\ c > b
           /\ c <= Len(s) /\ s[c] \in WordChars
           /\ r <= Len(s) /\ s[r] \in {"=", ";"}
           /\ n <= e /\ n > c /\ s[n - 1] \in Space
          THEN [end |-> r + 1, name |-> SubSeq(s, n, e)]
          ELSE NoMatch

RECURSIVE FieldScan(_, _)
FieldScan(s, pos) ==
    IF pos > Len(s) THEN <<>>
    ELSE LET m == FieldAt(s, pos)
         IN  IF m.end # 0 THEN <<m.name>> \o FieldScan(s, m.end)
                          ELSE FieldScan(s, pos + 1)

\* fields = field_pattern.findall(raw)
field_pattern_findall(s) == FieldScan(s, 1)

\* (public|private|protected)\s+[\w<>\[\]]+\s+(\w+)\s*\( with the keyword at
\* position a: vis is group 1, name group 2, paren the position of the "(".
HeaderAt(s, a) ==
    LET kws == {k \in Visibility : LitAt(s, a, k)}
        kw == CHOOSE k \in kws : TRUE
        b == a + Len(kw)
        c == RunEnd(s, b, Space)
        d == RunEnd(s, c, TypeChars)
        e == RunEnd(s, d, Space)
        f == RunEnd(s, e, WordChars)
        g == RunEnd(s, f, Space)
    IN  IF kws # {} /\ c > b /\ d > c /\ e > d /\ f > e /\ CharAt(s, g, "(")
          THEN [end |-> g + 1, vis |-> kw, name |-> SubSeq(s, e, f - 1), paren |-> g]
          ELSE NoMatch

\* method_pattern (^\s+ before the header) matched at position i
MethodAt(s, i) ==
    LET a == RunEnd(s, i, Space)
    IN  IF LineStart(s, i) /\ a > i THEN HeaderAt(s, a) ELSE NoMatch

RECURSIVE MethodScan(_, _)
MethodScan(s, pos) ==
    IF pos > Len(s) THEN <<>>
    ELSE LET m == MethodAt(s, pos)
         IN  IF m.end # 0 THEN <<[vis |-> m.vis, name |-> m.name]>> \o MethodScan(s, m.end)
                          ELSE MethodScan(s, pos + 1)

\* method_matches = method_pattern.findall(raw)
method_pattern_findall(s) == MethodScan(s, 1)

\* method_body_pattern (the header, then \([^)]*\)\s*\{ ) matched at position
\* i: brace is match.end() - 1, the position of the opening brace.
MethodBodyAt(s, i) ==
    LET h == HeaderAt(s, i)
        p == Find(s, h.paren + 1, ")")
        q == RunEnd(s, p + 1, Space)
    IN  IF h.end # 0 /\ p <= Len(s) /\ CharAt(s, q, "{")
          THEN [end |-> q + 1, brace |-> q]
          ELSE NoMatch

RECURSIVE BodyScan(_, _)
BodyScan(s, pos) ==
    IF pos > Len(s) THEN <<>>
    ELSE LET m == MethodBodyAt(s, pos)
         IN  IF m.end # 0 THEN <<m.brace>> \o BodyScan(s, m.end)
                          ELSE BodyScan(s, pos + 1)

\* [match.end() - 1 for match in method_body_pattern.finditer(raw)]
method_body_pattern_finditer(s) == BodyScan(s, 1)

RECURSIVE ScanBraces_first_close(_, _, _)
\* Mutant: the loop breaks at the first closing brace, whatever the depth.
ScanBraces_first_close(s, i, depth) ==
    IF i > Len(s) THEN 0
    ELSE IF s[i] = "}" THEN i
    ELSE ScanBraces_first_close(s, i + 1, depth)

RECURSIVE ScanBraces(_, _, _)
\* for i in range(start, len(raw)) with its depth counter: the position where
\* depth returns to 0 (the break), 0 when the loop runs to the end of raw.
ScanBraces(s, i, depth) ==
    IF i > Len(s) THEN 0
    ELSE IF s[i] = "{" THEN ScanBraces(s, i + 1, depth + 1)
    ELSE IF s[i] = "}"
           THEN IF depth - 1 = 0 THEN i ELSE ScanBraces(s, i + 1, depth - 1)
    ELSE ScanBraces(s, i + 1, depth)

\* end after the loop: it stays at start when the loop never breaks.
BodyEnd(s, start) ==
    LET e == ScanBraces(s, start, 0)
    IN  IF e = 0 THEN start ELSE e

\* Mutant: the body is what lies between the braces.
MethodBody_inner(s, start) == SubSeq(s, start + 1, BodyEnd(s, start) - 1)

\* body = raw[start:end+1]
MethodBody(s, start) == SubSeq(s, start, BodyEnd(s, start))

\* The filter of body_loc.
IsBodyCodeLine(l) ==
    /\ strip(l) # <<>>
    /\ ~startswith(strip(l), LineComment)
    /\ ~startswith(strip(l), Star)

\* body_loc
BodyLoc(body) ==
    LET ls == split(body)
    IN  Cardinality({i \in DOMAIN ls : IsBodyCodeLine(ls[i])})

\* <<start, end>> of every match after its brace loop, in match order.
BodySpans(s) ==
    LET starts == method_body_pattern_finditer(s)
    IN  [k \in DOMAIN starts |-> <<starts[k], BodyEnd(s, starts[k])>>]

\* The bodies cut out by either loop over method_body_pattern.finditer(raw).
MethodBodies(s) ==
    LET starts == method_body_pattern_finditer(s)
    IN  [k \in DOMAIN starts |-> MethodBody(s, starts[k])]

\* max(method_locs) if method_locs else 0
MaxMethodLoc(s) ==
    LET bodies == MethodBodies(s)
        method_locs == {BodyLoc(bodies[k]) : k \in DOMAIN bodies}
    IN  IF method_locs = {} THEN 0
        ELSE CHOOSE x \in method_locs : \A y \in method_locs : y <= x

\* set(type_pattern.findall(raw)) for \b([A-Z]\w+)\b: the words of two or more
\* characters that start with a capital.
TypeTokens(s) ==
    {SubSeq(s, i, RunEnd(s, i, WordChars) - 1) :
        i \in {j \in 1..Len(s) :
                 /\ s[j] \in Upper
                 /\ (j = 1 \/ s[j - 1] \notin WordChars)
                 /\ RunEnd(s, j, WordChars) - j >= 2}}

\* cbo
CBO(s, classname) == Cardinality((TypeTokens(s) \ builtin) \ {classname})

\* dit, from re.search(r"extends\s+\w+", raw)
DIT(s) ==
    IF \E i \in 1..Len(s) :
          LET b == i + Len(KwExtends)
              c == RunEnd(s, b, Space)
          IN  LitAt(s, i, KwExtends) /\ c > b /\ c <= Len(s) /\ s[c] \in WordChars
      THEN 1 ELSE 0

\* field_usage[f] after the loop over the bodies: once per body holding f and
\* per occurrence of f in the list fields.
FieldUsage(f, fields, bodies) ==
    Cardinality({<<k, j>> \in (DOMAIN bodies) \X (DOMAIN fields) :
                    fields[j] = f /\ Contains(bodies[k], f)})

\* lcom
LCOM(s, fields, num_methods) ==
    IF num_methods > 1 /\ Len(fields) > 0
      THEN LET bodies == MethodBodies(s)
               shared == Cardinality({j \in DOMAIN fields :
                                         FieldUsage(fields[j], fields, bodies) > 1})
           IN  IF num_methods - shared > 0 THEN num_methods - shared ELSE 0
      ELSE 0

\* (\w+)\.\w+\( matched with its receiver starting at position i
CallAt(s, i) ==
    LET r == RunEnd(s, i, WordChars)
        t == RunEnd(s, r + 1, WordChars)
    IN  /\ s[i] \in WordChars /\ (i = 1 \/ s[i - 1] \notin WordChars)
        /\ CharAt(s, r, ".") /\ t > r + 1 /\ CharAt(s, t, "(")

\* set(external_calls)
ExternalCalls(s, classname) ==
    {SubSeq(s, i, RunEnd(s, i, WordChars) - 1) : i \in {j \in 1..Len(s) : CallAt(s, j)}}
        \ {KwThis, KwSystem, KwMath, KwSuper, classname}

\* (?!this)\b\w+\.(?:get|set)\w+\( matched at position i
AtfdAt(s, i) ==
    LET r == RunEnd(s, i, WordChars)
        t == RunEnd(s, r + 4, WordChars)
    IN  /\ ~LitAt(s, i, KwThis)
        /\ s[i] \in WordChars /\ (i = 1 \/ s[i - 1] \notin WordChars)
        /\ CharAt(s, r, ".")
        /\ (LitAt(s, r + 1, KwGet) \/ LitAt(s, r + 1, KwSet))
        /\ t > r + 4 /\ CharAt(s, t, "(")

\* atfd
ATFD(s) == Cardinality({i \in 1..Len(s) : AtfdAt(s, i)})

\* Mutant: NOC is the number of class declarations found in the text.
NOC_declared(s) == Cardinality({j \in 1..Len(s) : ClassAt(s, j).end # 0})

\* "NOC": 1
NOC(s) == 1

\* The dict returned for the file at path whose text is s.
extract_metrics(path, s) ==
    LET lines == split(s)
        classname == ClassName(path, s)
        fields == field_pattern_findall(s)
        method_matches == method_pattern_findall(s)
        num_methods == Len(method_matches)
    IN  [file_path |-> path,
         class_name |-> classname,
         package |-> PackageName(s),
         LOC |-> CountLOC(lines),
         WMC |-> num_methods,
         METHODS |-> num_methods,
         FIELDS |-> Len(fields),
         PRIVATE_METHODS |->
             Cardinality({k \in DOMAIN method_matches : method_matches[k].vis = KwPrivate}),
         CBO |-> CBO(s, classname),
         DIT |-> DIT(s),
         LCOM |-> LCOM(s, fields, num_methods),
         TCC |-> Cardinality(ExternalCalls(s, classname)),
         ATFD |-> ATFD(s),
         MAX_METHOD_LOC |-> MaxMethodLoc(s),
         NOC |-> NOC(s),
         raw_code |-> s]

(***************************************************************************)
(* Actions                                                                 *)
(***************************************************************************)
\* One call detect_smells(metrics) by a caller holding the record.
DetectSmells ==
    /\ pc \in {"record", "classified"}
    /\ calls < MaxCalls
    /\ IF MetricKeys \subseteq DOMAIN metrics
         THEN /\ detected' = detect_smells(metrics)
              /\ first' = IF calls = 0 THEN detected' ELSE first
              /\ error' = "none"
              /\ pc' = "classified"
         ELSE /\ error' = "KeyError"
              /\ pc' = "failed"
              /\ UNCHANGED <<detected, first>>
    /\ calls' = calls + 1
    /\ UNCHANGED <<filepath, raw, metrics, scanVars, runVars>>

\* One call extract_metrics(filepath) on a file whose text is raw.
Extract ==
    /\ pc = "file"
    /\ metrics' = extract_metrics(filepath, raw)
    /\ spans' = BodySpans(raw)
    /\ pc' = "record"
    /\ UNCHANGED <<filepath, raw, detected, first, calls, error, scan, runVars>>

(***************************************************************************)
(* Spec: the rule engine on caller-supplied records.                       *)
(***************************************************************************)
\* No brace loop has run.
NoScan == [loop |-> "none"]

\* No script is running.
NoRun ==
    /\ script = "none"
    /\ disk = <<>>
    /\ project = 0
    /\ pending = {}
    /\ results = <<>>
    /\ issues = <<>>
    /\ ALL = <<>>
    /\ stdout = <<>>
    /\ written = <<>>
    /\ dataset = <<>>

Init ==
    /\ filepath = <<>>
    /\ raw = <<>>
    /\ metrics \in Records
    /\ detected = <<>>
    /\ first = <<>>
    /\ calls = 0
    /\ error = "none"
    /\ pc = "record"
    /\ spans = <<>>
    /\ scan = NoScan
    /\ NoRun

Next == DetectSmells

Spec == Init /\ [][Next]_vars

(***************************************************************************)
(* SpecExtract: one file is extracted, its record classified.              *)
(***************************************************************************)
InitExtract ==
    /\ filepath \in FilePaths
    /\ raw \in Texts
    /\ metrics = <<>>
    /\ detected = <<>>
    /\ first = <<>>
    /\ calls = 0
    /\ error = "none"
    /\ pc = "file"
    /\ spans = <<>>
    /\ scan = NoScan
    /\ NoRun

NextExtract == Extract \/ DetectSmells

SpecExtract == InitExtract /\ [][NextExtract]_vars

(***************************************************************************)
(* SpecScan: extract_metrics on one file, the loop for i in                *)
(* range(start, len(raw)) taken one character at a time, in the loop that  *)
(* fills method_locs ("locs") and in the one that fills field_usage        *)
(* ("usage").                                                              *)
(*   pc: "file" | "match" | "scan" | "body" | "record"                     *)
(***************************************************************************)
\* The lines that open, close and fill the bodies.
ScanLineKinds == {LnField, LnMethodOpen, LnClose, LnPrivateMethod, LnEmptyMethod}

ScanTexts ==
    {Join(ls) : ls \in UNION {[1..n -> ScanLineKinds] : n \in 1..MaxScanLines}}

\* What the patterns and the rest of extract_metrics yield on each text of
\* ScanTexts, tabulated once so that a step looks its value up.
finditer == [t \in ScanTexts |-> method_body_pattern_finditer(t)]

findall == [t \in ScanTexts |-> field_pattern_findall(t)]

returned == [path \in FilePaths |-> [t \in ScanTexts |-> extract_metrics(path, t)]]

\* len(method_pattern.findall(raw))
num_methods == [t \in ScanTexts |-> Len(method_pattern_findall(t))]

\* Mutant: the loop has no end of range.
Exhausted_never(s, i) == FALSE

\* range(start, len(raw)) has no further i.
Exhausted(s, i) == i > Len(s)

\* method_locs = [] and the first finditer; field_usage = defaultdict(int)
\* is filled in here for every field, with its default 0.
BeginScan ==
    /\ pc = "file"
    /\ scan' = [loop |-> "locs",
                starts |-> finditer[raw],
                k |-> 1, start |-> 0, depth |-> 0, end |-> 0, i |-> 0,
                method_locs |-> <<>>,
                field_usage |->
                    [f \in {findall[raw][j] : j \in DOMAIN findall[raw]} |-> 0]]
    /\ spans' = <<>>
    /\ pc' = "match"
    /\ UNCHANGED <<fileVars, runVars>>

\* for match in method_body_pattern.finditer(raw): start, depth, end are set
\* and the inner loop begins at i = start.
NextMatch ==
    /\ pc = "match"
    /\ scan.k <= Len(scan.starts)
    /\ scan' = [scan EXCEPT !.start = scan.starts[scan.k], !.depth = 0,
                            !.end = scan.starts[scan.k],
                            !.i = scan.starts[scan.k]]
    /\ pc' = "scan"
    /\ UNCHANGED <<fileVars, spans, runVars>>

\* One iteration of the inner loop, on raw[i].
ScanChar ==
    /\ pc = "scan"
    /\ scan.i <= Len(raw)
    /\ IF raw[scan.i] = "{"
         THEN /\ scan' = [scan EXCEPT !.depth = @ + 1, !.i = @ + 1]
              /\ pc' = "scan"
         ELSE IF raw[scan.i] = "}"
         THEN IF scan.depth - 1 = 0
                THEN /\ scan' = [scan EXCEPT !.depth = @ - 1, !.end = scan.i]
                     /\ pc' = "body"
                ELSE /\ scan' = [scan EXCEPT !.depth = @ - 1, !.i = @ + 1]
                     /\ pc' = "scan"
         ELSE /\ scan' = [scan EXCEPT !.i = @ + 1]
              /\ pc' = "scan"
    /\ UNCHANGED <<fileVars, spans, runVars>>

\* range(start, len(raw)) is exhausted: the inner loop ends without a break.
ScanExhausted ==
    /\ pc = "scan"
    /\ Exhausted(raw, scan.i)
    /\ pc' = "body"
    /\ UNCHANGED <<fileVars, scanVars, runVars>>

\* body = raw[start:end+1] and what either loop does with it.
CloseBody ==
    /\ pc = "body"
    /\ LET body == SubSeq(raw, scan.start, scan.end)
            fields == findall[raw]
       IN  IF scan.loop = "locs"
             THEN /\ scan' = [scan EXCEPT
                                !.method_locs = Append(@, BodyLoc(body)),
                                !.k = @ + 1]
                  /\ spans' = Append(spans, <<scan.start, scan.end>>)
             ELSE /\ scan' = [scan EXCEPT
                                !.field_usage =
                                    [f \in DOMAIN @ |->
                                        IF Contains(body, f)
                                          THEN @[f] + Cardinality(
                                                   {j \in DOMAIN fields : fields[j] = f})
                                          ELSE @[f]],
                                !.k = @ + 1]
                  /\ UNCHANGED spans
    /\ pc' = "match"
    /\ UNCHANGED <<fileVars, runVars>>

\* The first loop over the matches is over: the second finditer begins.
SecondLoop ==
    /\ pc = "match"
    /\ scan.k > Len(scan.starts)
    /\ scan.loop = "locs"
    /\ scan' = [scan EXCEPT !.loop = "usage", !.k = 1]
    /\ pc' = "match"
    /\ UNCHANGED <<fileVars, spans, runVars>>

\* The second loop is over: max_method_loc and lcom are taken from what the
\* loops gathered, and the dict is returned.
Return ==
    /\ pc = "match"
    /\ scan.k > Len(scan.starts)
    /\ scan.loop = "usage"
    /\ LET locs == {scan.method_locs[k] : k \in DOMAIN scan.method_locs}
            fields == findall[raw]
            shared == Cardinality({j \in DOMAIN fields :
                                      scan.field_usage[fields[j]] > 1})
       IN  metrics' =
             [returned[filepath][raw] EXCEPT
                !.MAX_METHOD_LOC =
                    IF locs = {} THEN 0
                    ELSE CHOOSE x \in locs : \A y \in locs : y <= x,
                !.LCOM =
                    IF num_methods[raw] > 1 /\ Len(fields) > 0
                      THEN IF num_methods[raw] - shared > 0
                             THEN num_methods[raw] - shared ELSE 0
                      ELSE 0]
    /\ pc' = "record"
    /\ UNCHANGED <<filepath, raw, detected, first, calls, error, scanVars, runVars>>

InitScan ==
    /\ filepath \in FilePaths
    /\ raw \in ScanTexts
    /\ metrics = <<>>
    /\ detected = <<>>
    /\ first = <<>>
    /\ calls = 0
    /\ error = "none"
    /\ pc = "file"
    /\ spans = <<>>
    /\ scan = NoScan
    /\ NoRun

NextScan ==
    \/ BeginScan
    \/ NextMatch
    \/ ScanChar
    \/ ScanExhausted
    \/ CloseBody
    \/ SecondLoop
    \/ Return

SpecScan == InitScan /\ [][NextScan]_vars

\* The interpreter runs the call to its end: a step that can be taken is taken.
FairSpecScan == SpecScan /\ WF_vars(NextScan)

(***************************************************************************)
(* SpecRun: one run of ck_extractor.py or of sonar_detector.py as a        *)
(* script.  Paths are written relative to BASE.                            *)
(*   pc: "start" | "project" | "walk" | "extracted" | "raised" | "done" |   *)
(*       "fatal" | "dataset"                                               *)
(***************************************************************************)
\* The sub-directories of BASE, as projects.sort() / sorted() leaves them.
projects == <<<<"p">>, <<"q">>>>

\* The .java files a disk may hold: the first MaxFiles of these.
JavaPool ==
    <<<<"p", "/", "B", ".", "j", "a", "v", "a">>,
      <<"p", "/", "A", ".", "j", "a", "v", "a">>,
      <<"q", "/", "A", ".", "j", "a", "v", "a">>,
      <<"q", "/", "B", ".", "j", "a", "v", "a">>>>

JavaFiles == {JavaPool[n] : n \in 1..MaxFiles}

\* A file os.walk yields that is no .java file.
Notes == <<"p", "/", "n", "o", "t", "e", "s", ".", "t", "x", "t">>

\* A byte sequence that is no valid encoding of a character.
BadByte == "0xFF"

\* What a file may hold: nothing, a class of three private methods, a class
\* of three private methods with four getter calls on another object, or a
\* field declaration with an undecodable byte in it.
BytesEmpty == <<>>

BytesPrivate == Join(<<LnPrivateMethod, LnPrivateMethod, LnPrivateMethod>>)

BytesBad == SubSeq(LnField, 1, 2) \o <<BadByte>> \o SubSeq(LnField, 3, Len(LnField))

\* " private T q(){o.getN();o.getN();}"
LnEnvyMethod ==
    <<" ", "p", "r", "i", "v", "a", "t", "e", " ", "T", " ", "q", "(", ")",
      "{", "o", ".", "g", "e", "t", "N", "(", ")", ";", "o", ".", "g", "e",
      "t", "N", "(", ")", ";", "}">>

\* " private T r(){}"
LnShortMethod ==
    <<" ", "p", "r", "i", "v", "a", "t", "e", " ", "T", " ", "r", "(", ")",
      "{", "}">>

BytesEnvy == Join(<<LnEnvyMethod, LnEnvyMethod, LnShortMethod>>)

FileBytes == {BytesEmpty, BytesPrivate, BytesEnvy, BytesBad}

\* A file is its bytes and whether open() succeeds on it.
FileKinds ==
    [readable : {TRUE}, bytes : FileBytes]
        \cup [readable : {FALSE}, bytes : {BytesEmpty}]

\* The disks a run may meet: BASE and OUT exist or not, every file of any
\* kind.
Disks ==
    {d \in [root : BOOLEAN, out : BOOLEAN,
            files : [JavaFiles \cup {Notes} -> FileKinds]] :
        d.files[Notes] = [readable |-> TRUE, bytes |-> BytesEmpty]}

\* f.read() of a file opened with errors="ignore": the bytes that decode.
Decodable(b) == b # BadByte

read(bytes) == SelectSeq(bytes, Decodable)

\* What extract_metrics returns for every file a disk may hold, tabulated
\* once so that a step looks its value up.
record_of ==
    [fpath \in JavaFiles |->
        [bytes \in FileBytes |-> extract_metrics(fpath, read(bytes))]]

\* fname.endswith(".java")
endswith(str, suffix) == LitAt(str, Len(str) - Len(suffix) + 1, suffix)

\* The files os.walk(os.path.join(BASE, proj)) yields.
walk(d, proj) == {f \in DOMAIN d.files : startswith(f, proj \o <<"/">>)}

\* os.path.relpath(fpath, project_path)
relpath(fpath, proj) == SubSeq(fpath, Len(proj) + 2, Len(fpath))

\* m after m["project"] = project_name
WithProject(m, proj) ==
    [key \in DOMAIN m \cup {"project"} |-> IF key = "project" THEN proj ELSE m[key]]

\* The characters of a rule identifier.
str(rule) ==
    CASE rule = "java:S2095" -> <<"j", "a", "v", "a", ":", "S", "2", "0", "9", "5">>
      [] rule = "java:S1067" -> <<"j", "a", "v", "a", ":", "S", "1", "0", "6", "7">>
      [] rule = "java:S2093" -> <<"j", "a", "v", "a", ":", "S", "2", "0", "9", "3">>
      [] rule = "java:S1604" -> <<"j", "a", "v", "a", ":", "S", "1", "6", "0", "4">>
      [] rule = "java:R1031" -> <<"j", "a", "v", "a", ":", "R", "1", "0", "3", "1">>

\* "{}:{}".format(a, b)
Colon(a, b) == a \o <<":">> \o b

\* Mutant: file_path of an issue is the path relative to the project.
MakeIssue_relative(proj, fpath, m, smell) ==
    [key |-> Colon(Colon(proj, relpath(fpath, proj)), str(smell.rule)),
     rule |-> smell.rule, type |-> smell.type, severity |-> smell.severity,
     text |-> smell.text, smell_label |-> smell.smell_label,
     component |-> Colon(proj, relpath(fpath, proj)),
     class_name |-> m.class_name,
     file_path |-> relpath(fpath, proj)]

\* Mutant: the key is the component, without the rule.
MakeIssue_norule(proj, fpath, m, smell) ==
    [key |-> Colon(proj, relpath(fpath, proj)),
     rule |-> smell.rule, type |-> smell.type, severity |-> smell.severity,
     text |-> smell.text, smell_label |-> smell.smell_label,
     component |-> Colon(proj, relpath(fpath, proj)),
     class_name |-> m.class_name,
     file_path |-> fpath]

\* The dict appended to issues for one smell.
MakeIssue(proj, fpath, m, smell) ==
    [key |-> Colon(Colon(proj, relpath(fpath, proj)), str(smell.rule)),
     rule |-> smell.rule, type |-> smell.type, severity |-> smell.severity,
     text |-> smell.text, smell_label |-> smell.smell_label,
     component |-> Colon(proj, relpath(fpath, proj)),
     class_name |-> m.class_name,
     file_path |-> fpath]

\* Mutant: the first file that fails ends the walk of the project.
Remaining_abort(rest) == {}

\* The files still to come after the except clause: it is inside the loop,
\* so a failure leaves them all.
Remaining(rest) == rest

\* projects = sorted(d for d in os.listdir(BASE) ...): os.listdir raises when
\* BASE is missing or cannot be read, and nothing catches it.
ListProjects ==
    /\ pc = "start"
    /\ IF disk.root
         THEN /\ project' = 1
              /\ pc' = "project"
              /\ UNCHANGED error
         ELSE /\ error' = "FileNotFoundError"
              /\ pc' = "fatal"
              /\ UNCHANGED project
    /\ UNCHANGED <<filepath, raw, metrics, detected, first, calls, scanVars,
                   script, disk, pending, results, issues, ALL, stdout, written, dataset>>

\* for proj in projects: run_on_project or run_sonar_on_project is called,
\* starts with an empty list and os.walk begins.
EnterProject ==
    /\ pc = "project"
    /\ project <= Len(projects)
    /\ results' = <<>>
    /\ issues' = <<>>
    /\ pending' = walk(disk, projects[project])
    /\ pc' = "walk"
    /\ UNCHANGED <<fileVars, scanVars, script, disk, project, ALL, stdout, written, dataset>>

\* The walk of either function reaches a file, in whatever order os.walk
\* yields the files.  A file that is no .java file is passed over; on a
\* .java file extract_metrics is called and returns its dict, or raises what
\* open() raised.
CallExtract ==
    /\ pc = "walk"
    /\ \E fpath \in pending :
          /\ pending' = pending \ {fpath}
          /\ IF ~endswith(fpath, DotJava)
               THEN /\ pc' = "walk"
                    /\ UNCHANGED <<filepath, raw, metrics>>
               ELSE IF disk.files[fpath].readable
               THEN /\ filepath' = fpath
                    /\ raw' = read(disk.files[fpath].bytes)
                    /\ metrics' = record_of[fpath][disk.files[fpath].bytes]
                    /\ pc' = "extracted"
               ELSE /\ filepath' = fpath
                    /\ pc' = "raised"
                    /\ UNCHANGED <<raw, metrics>>
    /\ UNCHANGED <<detected, first, calls, error, scanVars, script, disk, project,
                   results, issues, ALL, stdout, written, dataset>>

\* Mutant: one dict is shared by all the files, so that every row of results
\* is the record of the latest file.
AppendRecord_shared_dict ==
    /\ pc = "extracted"
    /\ script = "ck_extractor"
    /\ results' = [n \in 1..(Len(results) + 1) |->
                       WithProject(metrics, projects[project])]
    /\ pc' = "walk"
    /\ UNCHANGED <<fileVars, scanVars, script, disk, project, pending, issues, ALL,
                   stdout, written, dataset>>

\* run_on_project: m["project"] = project_name; results.append(m)
AppendRecord ==
    /\ pc = "extracted"
    /\ script = "ck_extractor"
    /\ results' = Append(results, WithProject(metrics, projects[project]))
    /\ pc' = "walk"
    /\ UNCHANGED <<fileVars, scanVars, script, disk, project, pending, issues, ALL,
                   stdout, written, dataset>>

\* run_sonar_on_project: smells = detect_smells(metrics) and one issue
\* appended per smell.
AppendIssues ==
    /\ pc = "extracted"
    /\ script = "sonar_detector"
    /\ detected' = detect_smells(metrics)
    /\ issues' = issues \o
          [n \in DOMAIN detected' |->
              MakeIssue(projects[project], filepath, metrics, detected'[n])]
    /\ pc' = "walk"
    /\ UNCHANGED <<filepath, raw, metrics, first, calls, error, scanVars, script,
                   disk, project, pending, results, ALL, stdout, written, dataset>>

\* except Exception as e: the WARN line is printed and the walk goes on.
Warn ==
    /\ pc = "raised"
    /\ stdout' = Append(stdout, filepath)
    /\ pending' = Remaining(pending)
    /\ pc' = "walk"
    /\ UNCHANGED <<fileVars, scanVars, script, disk, project, results, issues, ALL,
                   written, dataset>>

\* The end of run_on_project and the rest of the loop body of the script:
\* the CSV is written when results is not empty, open() raising when OUT
\* is missing; then ALL.extend(results).  The rows keep the order of results.
WriteCsv ==
    /\ pc = "walk"
    /\ script = "ck_extractor"
    /\ pending = {}
    /\ IF results # <<>> /\ ~disk.out
         THEN /\ error' = "FileNotFoundError"
              /\ pc' = "fatal"
              /\ UNCHANGED <<written, ALL, project>>
         ELSE /\ written' =
                   IF results # <<>>
                     THEN Append(written, [file |-> <<projects[project], "_ck.csv">>,
                                           rows |-> results])
                     ELSE written
              /\ ALL' = ALL \o results
              /\ project' = project + 1
              /\ pc' = "project"
              /\ UNCHANGED error
    /\ UNCHANGED <<filepath, raw, metrics, detected, first, calls, scanVars,
                   script, disk, pending, results, issues, stdout, dataset>>

\* The end of run_sonar_on_project and the rest of the loop body of the
\* script: the JSON is written whatever issues holds, open() raising when
\* OUT is missing; then ALL_ISSUES.extend(issues).
WriteJson ==
    /\ pc = "walk"
    /\ script = "sonar_detector"
    /\ pending = {}
    /\ IF ~disk.out
         THEN /\ error' = "FileNotFoundError"
              /\ pc' = "fatal"
              /\ UNCHANGED <<written, ALL, project>>
         ELSE /\ written' = Append(written,
                                   [file |-> <<projects[project], "_sonar.json">>,
                                    total |-> Len(issues),
                                    rows |-> issues])
              /\ ALL' = ALL \o issues
              /\ project' = project + 1
              /\ pc' = "project"
              /\ UNCHANGED error
    /\ UNCHANGED <<filepath, raw, metrics, detected, first, calls, scanVars,
                   script, disk, pending, results, issues, stdout, dataset>>

\* After the loop over projects: the combined file is written, open()
\* raising when OUT is missing.  The one of sonar_detector holds
\* {"total": len(ALL_ISSUES), "issues": ALL_ISSUES}, the one of ck_extractor
\* the list ALL.
WriteCombined ==
    /\ pc = "project"
    /\ project > Len(projects)
    /\ IF ~disk.out
         THEN /\ error' = "FileNotFoundError"
              /\ pc' = "fatal"
              /\ UNCHANGED written
         ELSE /\ written' =
                   Append(written,
                          IF script = "sonar_detector"
                            THEN [file |-> <<"all">>, total |-> Len(ALL), rows |-> ALL]
                            ELSE [file |-> <<"all">>, rows |-> ALL])
              /\ pc' = "done"
              /\ UNCHANGED error
    /\ UNCHANGED <<filepath, raw, metrics, detected, first, calls, scanVars,
                   script, disk, project, pending, results, issues, ALL, stdout, dataset>>

\* Index in projects of the project a file belongs to.
ProjectOf(fpath) ==
    CHOOSE k \in DOMAIN projects : startswith(fpath, projects[k] \o <<"/">>)

\* all_ck_metrics.json as build_dataset may find it: rows of some of the
\* .java files, those of a project together and the projects in order; of
\* each row the model keeps the file_path.
CkData ==
    {ck_data \in UNION {[1..n -> [file_path : JavaFiles]] : n \in 0..MaxFiles} :
        \A a, b \in DOMAIN ck_data :
            a < b => /\ ck_data[a] # ck_data[b]
                     /\ ProjectOf(ck_data[a].file_path)
                            <= ProjectOf(ck_data[b].file_path)}

\* SMELL_TYPES
SMELL_TYPES == <<"GodClass", "FeatureEnvy", "LongMethod", "DataClass", "DeadCode">>

\* sonar_by_path.get(fpath, []): the smell_label of the issues of this
\* file_path, in the order of sonar_data.
sonar_by_path(sonar_data, fpath) ==
    LET OfPath(issue) == issue.file_path = fpath
        of_path == SelectSeq(sonar_data, OfPath)
    IN  [n \in DOMAIN of_path |-> of_path[n].smell_label]

\* Mutant: the last smell of the list is taken.
predicted_smell_last(sonar_smells) ==
    IF sonar_smells # <<>> THEN sonar_smells[Len(sonar_smells)] ELSE "Clean"

\* sonar_smells[0] if sonar_smells else "Clean"
predicted_smell(sonar_smells) ==
    IF sonar_smells # <<>> THEN sonar_smells[1] ELSE "Clean"

\* The columns of a row that come from the sonar detections (the columns
\* copied from the ck row and those of the ground truth are left out).
Row(ck, sonar_data) ==
    LET sonar_smells == sonar_by_path(sonar_data, ck.file_path)
        smells == {sonar_smells[n] : n \in DOMAIN sonar_smells}
        label_OR == IF Len(sonar_smells) > 0 THEN 1 ELSE 0
    IN  [file_path |-> ck.file_path,
         sonar |-> [n \in DOMAIN SMELL_TYPES |->
                       IF SMELL_TYPES[n] \in smells THEN 1 ELSE 0],
         label_OR |-> label_OR,
         label_majority |-> label_OR,
         predicted_smell |-> predicted_smell(sonar_smells)]

\* build_dataset.py run once sonar_detector has written
\* all_sonar_issues.json: one row per row of ck_data.
BuildDataset ==
    /\ pc = "done"
    /\ script = "sonar_detector"
    /\ \E ck_data \in CkData :
          dataset' = [n \in DOMAIN ck_data |->
                         Row(ck_data[n], written[Len(written)].rows)]
    /\ pc' = "dataset"
    /\ UNCHANGED <<fileVars, scanVars, script, disk, project, pending, results,
                   issues, ALL, stdout, written>>

InitRun ==
    /\ filepath = <<>>
    /\ raw = <<>>
    /\ metrics = <<>>
    /\ detected = <<>>
    /\ first = <<>>
    /\ calls = 0
    /\ error = "none"
    /\ pc = "start"
    /\ spans = <<>>
    /\ scan = NoScan
    /\ script \in {"ck_extractor", "sonar_detector"}
    /\ disk \in Disks
    /\ project = 0
    /\ pending = {}
    /\ results = <<>>
    /\ issues = <<>>
    /\ ALL = <<>>
    /\ stdout = <<>>
    /\ written = <<>>
    /\ dataset = <<>>

NextRun ==
    \/ ListProjects
    \/ EnterProject
    \/ CallExtract
    \/ AppendRecord
    \/ AppendIssues
    \/ Warn
    \/ WriteCsv
    \/ WriteJson
    \/ WriteCombined
    \/ BuildDataset

SpecRun == InitRun /\ [][NextRun]_vars

(***************************************************************************)
(* Properties of the rule engine (checked under Spec).                     *)
(***************************************************************************)
RuleOrder == <<"GodClass", "LongMethod", "DataClass", "DeadCode", "FeatureEnvy">>

RuleIdOf(label) ==
    CASE label = "GodClass"    -> "java:S2095"
      [] label = "LongMethod"  -> "java:S1067"
      [] label = "DataClass"   -> "java:S2093"
      [] label = "DeadCode"    -> "java:S1604"
      [] label = "FeatureEnvy" -> "java:R1031"

\* The list d holds a finding of the rule with this label.
Fires(d, label) ==
    \E i \in DOMAIN d : d[i].smell_label = label /\ d[i].rule = RuleIdOf(label)

\* Position of a label in the evaluation order.
Rank(label) == CHOOSE k \in DOMAIN RuleOrder : RuleOrder[k] = label

Returned == pc = "classified"

C2_LongMethodIff ==
    Returned =>
        /\ Fires(detected, "LongMethod") <=> metrics.MAX_METHOD_LOC > 40
        /\ metrics.MAX_METHOD_LOC = 41 => Fires(detected, "LongMethod")
        /\ metrics.MAX_METHOD_LOC = 40 => ~Fires(detected, "LongMethod")

C2_Witness ==
    Returned /\ metrics.MAX_METHOD_LOC = 41 /\ Fires(detected, "LongMethod")

C6_FixedOrder ==
    Returned =>
        /\ \A i \in DOMAIN detected :
              \E k \in DOMAIN RuleOrder : detected[i].smell_label = RuleOrder[k]
        /\ \A i, j \in DOMAIN detected :
              i < j => Rank(detected[i].smell_label) < Rank(detected[j].smell_label)

C6_Witness ==
    /\ Returned
    /\ Len(detected) = 4
    /\ detected[1].smell_label = "GodClass"
    /\ detected[4].smell_label = "FeatureEnvy"

IsC8Record(m, atfd) ==
    m.WMC = 20 /\ m.LOC = 200 /\ m.FIELDS = 15 /\ m.ATFD = atfd /\ m.TCC = 2

GodBeforeEnvy(d) ==
    \E i, j \in DOMAIN d :
        i < j /\ d[i].smell_label = "GodClass" /\ d[j].smell_label = "FeatureEnvy"

\* C8 as stated: the record WMC=20, LOC=200, FIELDS=15, ATFD=6, TCC=2 yields
\* both a GodClass and a FeatureEnvy finding, GodClass first.
C8_AsStated ==
    (Returned /\ IsC8Record(metrics, 6)) =>
        /\ Fires(detected, "GodClass")
        /\ Fires(detected, "FeatureEnvy")
        /\ GodBeforeEnvy(detected)

\* C8 amended: that record yields a GodClass finding and no FeatureEnvy finding
\* (ATFD = 6 does not exceed 0.6 * WMC = 12); with ATFD = 13 in place of 6 both
\* are returned, GodClass before FeatureEnvy.
C8_MultiLabel ==
    /\ (Returned /\ IsC8Record(metrics, 6)) =>
          Fires(detected, "GodClass") /\ ~Fires(detected, "FeatureEnvy")
    /\ (Returned /\ IsC8Record(metrics, 13)) =>
          /\ Fires(detected, "GodClass")
          /\ Fires(detected, "FeatureEnvy")
          /\ GodBeforeEnvy(detected)

C8_Witness ==
    /\ Returned /\ IsC8Record(metrics, 6)
    /\ Fires(detected, "GodClass") /\ ~Fires(detected, "FeatureEnvy")

\* The labels of the rules that fire on record m.
FiringOn(m) ==
    LET d == detect_smells(m) IN {d[i].smell_label : i \in DOMAIN d}

RuleLabels == {RuleOrder[k] : k \in DOMAIN RuleOrder}

RulePairs == {P \in SUBSET RuleLabels : Cardinality(P) = 2}

\* Some record of the input set makes all the rules of S fire together.
CoFire(S) == \E m \in Records : S \subseteq FiringOn(m)

OtherPairsCoFire ==
    /\ \A n \in 0..4 : \E m \in Records : Len(detect_smells(m)) = n
    /\ \A P \in RulePairs : P # {"LongMethod", "DataClass"} => CoFire(P)

Extracted == pc \in {"record", "classified"}

\* C10: for the empty compilation unit extract_metrics yields METHODS = 0,
\* FIELDS = 0, WMC = 0 and LOC = 0, and detect_smells on that record returns
\* the empty list and raises nothing.
C10_EmptyUnit ==
    raw = <<>> =>
        /\ error = "none" /\ pc # "failed"
        /\ Extracted =>
              /\ metrics.METHODS = 0 /\ metrics.FIELDS = 0
              /\ metrics.WMC = 0 /\ metrics.LOC = 0
        /\ Returned => detected = <<>>

C10_Witness ==
    /\ raw = <<>>
    /\ Returned /\ calls >= 1
    /\ metrics.METHODS = 0 /\ metrics.LOC = 0
    /\ detected = <<>>

(***************************************************************************)
(* Properties of the LOC count and of the record (checked under            *)
(* SpecExtract).                                                           *)
(***************************************************************************)
\* Number of lines of the text: one more than its line breaks.
LineCount(s) == Cardinality({i \in 1..Len(s) : s[i] = "\n"}) + 1

\* The line, its leading whitespace passed, holds a character and does not
\* start with "//", "*" or "/*".
Counted(l) ==
    LET b == RunEnd(l, 1, Space)
    IN  /\ b <= Len(l)
        /\ ~LitAt(l, b, <<"/", "/">>)
        /\ ~LitAt(l, b, <<"*">>)
        /\ ~LitAt(l, b, <<"/", "*">>)

\* C11: for every source text 0 <= LOC <= number of lines of the text, and
\* LOC is exactly the number of lines that, trimmed, are non-empty and do not
\* start with "//", "*" or "/*".
C11_LOCCount ==
    Extracted =>
        /\ 0 <= metrics.LOC
        /\ metrics.LOC <= LineCount(raw)
        /\ metrics.LOC =
              Cardinality({i \in DOMAIN split(raw) : Counted(split(raw)[i])})

C11_Witness ==
    /\ Extracted
    /\ raw = Join(<<LnBlockComment, LnStarComment, LnField>>)
    /\ LineCount(raw) = 3
    /\ metrics.LOC = 1

CountKeys ==
    {"LOC", "WMC", "METHODS", "FIELDS", "PRIVATE_METHODS", "CBO", "LCOM", "TCC",
     "ATFD", "MAX_METHOD_LOC"}

Opens(s, a, b) == Cardinality({i \in a..b : s[i] = "{"})

Closes(s, a, b) == Cardinality({i \in a..b : s[i] = "}"})

\* No prefix closes more braces than it opens, and the text closes them all.
Balanced(s) ==
    /\ \A e \in 1..Len(s) : Closes(s, 1, e) <= Opens(s, 1, e)
    /\ Closes(s, 1, Len(s)) = Opens(s, 1, Len(s))

\* The positions at which the braces opened from a on are all closed.
ClosedAt(s, a) == {e \in a..Len(s) : Opens(s, a, e) = Closes(s, a, e)}

\* The closing brace that matches the opening brace at a, 0 when there is none.
Matching(s, a) ==
    IF ClosedAt(s, a) = {} THEN 0
    ELSE CHOOSE e \in ClosedAt(s, a) : \A d \in ClosedAt(s, a) : e <= d

\* C13: on a text whose braces are balanced, the body of every matched
\* header starts at the header's opening brace, the first character after
\* the ")" and the whitespace that follows it, and ends at the closing brace
\* that matches it, at any nesting depth; the body of "{}" is exactly those
\* two characters.
C13_BodyIsMatchedSpan ==
    (Extracted /\ Balanced(raw)) =>
        \A k \in DOMAIN spans :
            LET start == spans[k][1]
                end == spans[k][2]
            IN  /\ raw[start] = "{"
                /\ CharAt(raw, RunStart(raw, start - 1, Space) - 1, ")")
                /\ end = Matching(raw, start)
                /\ raw[end] = "}"
                /\ CharAt(raw, start + 1, "}") =>
                      SubSeq(raw, start, end) = <<"{", "}">>

C13_Witness ==
    /\ Extracted
    /\ raw = Join(<<LnMethodOpen, LnEmptyMethod, LnClose>>)
    /\ Balanced(raw)
    /\ Len(spans) = 2
    /\ spans[1] = <<Len(LnMethodOpen), Len(raw)>>
    /\ spans[2][2] = spans[2][1] + 1

(***************************************************************************)
(* Properties of the brace loops taken step by step (checked under         *)
(* FairSpecScan).                                                          *)
(***************************************************************************)
\* The record the loops arrive at is the one extract_metrics returns, and the
\* spans they cut are those of BodySpans.
ScanAgrees ==
    pc = "record" =>
        /\ metrics = extract_metrics(filepath, raw)
        /\ spans = BodySpans(raw)

\* The brace opened at position a is never closed.
Unterminated(s, a) == Matching(s, a) = 0

\* C14: the brace scan always terminates and reads no position past the end
\* of the input, also when the opening brace is never closed, and
\* extract_metrics completes and returns a record.
C14_ScanTerminates ==
    /\ [](pc = "scan" => (scan.start <= scan.i /\ scan.i <= Len(raw) + 1))
    /\ <>(pc = "record" /\ MetricKeys \subseteq DOMAIN metrics)

C14_Witness ==
    /\ pc = "record"
    /\ raw = Join(<<LnPrivateMethod, LnMethodOpen>>)
    /\ Len(spans) = 2
    /\ ~Unterminated(raw, spans[1][1])
    /\ Unterminated(raw, spans[2][1])
    /\ scan.i = Len(raw) + 1
    /\ MetricKeys \subseteq DOMAIN metrics

\* C15 as stated: a body whose opening brace is never closed before the end
\* of the input contributes 0 lines to method_locs, hence to MAX_METHOD_LOC.
C15_AsStated ==
    pc = "record" =>
        /\ \A k \in DOMAIN spans :
              Unterminated(raw, spans[k][1]) => scan.method_locs[k] = 0
        /\ (\A k \in DOMAIN spans : Unterminated(raw, spans[k][1])) =>
              metrics.MAX_METHOD_LOC = 0

(***************************************************************************)
(* Properties of a run (checked under SpecRun).                            *)
(***************************************************************************)
\* The .java files of the project being walked, and those open() succeeds on.
JavaOf(proj) == {f \in walk(disk, proj) : endswith(f, DotJava)}

ReadableOf(proj) == {f \in JavaOf(proj) : disk.files[f].readable}

\* The record extract_metrics returns on a file of the disk.
RecordOn(f) == record_of[f][disk.files[f].bytes]

\* The loop over the files of the project is over.
WalkOver == pc = "walk" /\ pending = {}

\* C16: a file whose extraction raises is skipped and logged, and every
\* other .java file of the project is still processed: when the walk is over
\* the result holds the records, or the findings, of exactly the files whose
\* extraction succeeded, in every order of enumeration.
C16_SkipAndContinue ==
    WalkOver =>
        LET proj == projects[project]
            smelly == {f \in ReadableOf(proj) : detect_smells(RecordOn(f)) # <<>>}
        IN  /\ error = "none"
            /\ {stdout[n] : n \in DOMAIN stdout} \cap JavaOf(proj)
                  = JavaOf(proj) \ ReadableOf(proj)
            /\ script = "ck_extractor" =>
                  /\ Len(results) = Cardinality(ReadableOf(proj))
                  /\ {results[n].file_path : n \in DOMAIN results} = ReadableOf(proj)
                  /\ \A n \in DOMAIN results :
                        results[n].LOC = RecordOn(results[n].file_path).LOC
            /\ script = "sonar_detector" =>
                  /\ {issues[n].file_path : n \in DOMAIN issues} = smelly
                  /\ \A f \in smelly :
                        Cardinality({n \in DOMAIN issues : issues[n].file_path = f})
                            = Len(detect_smells(RecordOn(f)))

\* The file that fails, p/B.java, came before p/A.java, which was processed.
C16_Witness ==
    /\ WalkOver
    /\ script = "ck_extractor"
    /\ project = 1
    /\ ~disk.files[JavaPool[1]].readable
    /\ stdout = <<JavaPool[1]>>
    /\ filepath = JavaPool[2]
    /\ Len(results) = 1
    /\ results[1].file_path = JavaPool[2]

\* C17 as stated: on a directory of one well-formed unit and one file that
\* fails to decode, the combined output holds exactly one record and one
\* file is reported as skipped.
C17_AsStated ==
    (/\ pc = "done"
     /\ script = "ck_extractor"
     /\ Cardinality(JavaFiles) = 2
     /\ \E good, bad \in JavaFiles :
           /\ disk.files[good] = [readable |-> TRUE, bytes |-> BytesPrivate]
           /\ disk.files[bad] = [readable |-> TRUE, bytes |-> BytesBad])
        => (Len(ALL) = 1 /\ Len(stdout) = 1)

\* The characters of the paths, in code point order.
CodePoints ==
    <<".", "/", "A", "B", "a", "e", "j", "n", "o", "p", "q", "s", "t", "v", "x">>

Ord(c) == CHOOSE n \in DOMAIN CodePoints : CodePoints[n] = c

\* a <= b in the order of str
LexLE(a, b) ==
    \/ Len(a) <= Len(b) /\ SubSeq(b, 1, Len(a)) = a
    \/ \E n \in 1..Len(a) :
          /\ n <= Len(b)
          /\ SubSeq(a, 1, n - 1) = SubSeq(b, 1, n - 1)
          /\ Ord(a[n]) < Ord(b[n])

SortedByPath(rows) ==
    \A n \in 1..(Len(rows) - 1) : LexLE(rows[n].file_path, rows[n + 1].file_path)

\* C18 as stated: the records of a project and the combined records are
\* ordered by file_path, in every order of enumeration.
C18_AsStated ==
    script = "ck_extractor" =>
        /\ WalkOver => SortedByPath(results)
        /\ \A n \in DOMAIN written : SortedByPath(written[n].rows)

\* C19 as stated: the run is fatal exactly when the traversal root is
\* missing or unreadable; nothing else, no unreadable file and no missing
\* output location, aborts it.
C19_AsStated ==
    /\ pc = "fatal" => ~disk.root
    /\ ~disk.root => pc \in {"start", "fatal"}

\* C20: every finding carries the class_name and the file_path of the record
\* it was derived from, and findings exist only for files whose extraction
\* succeeded.
C20_IssueCarriesRecord ==
    script = "sonar_detector" =>
        \A list \in {issues, ALL} \cup {written[n].rows : n \in DOMAIN written} :
            \A n \in DOMAIN list :
                LET f == list[n].file_path
                IN  /\ f \in JavaFiles
                    /\ disk.files[f].readable
                    /\ list[n].file_path = RecordOn(f).file_path
                    /\ list[n].class_name = RecordOn(f).class_name
                    /\ \E k \in DOMAIN detect_smells(RecordOn(f)) :
                          detect_smells(RecordOn(f))[k].rule = list[n].rule

C20_Witness ==
    /\ pc = "done"
    /\ script = "sonar_detector"
    /\ Len(ALL) = 2
    /\ ALL[1].file_path = JavaPool[1]
    /\ ALL[1].class_name = <<"B">>
    /\ ALL[2].file_path = JavaPool[2]
    /\ ALL[2].class_name = <<"A">>
    /\ ALL[1].smell_label = "DeadCode"


(***************************************************************************)
(* Properties of the findings' fields (checked under Spec).                *)
(***************************************************************************)
\* The values substituted into the message of a finding, the class name
\* apart.
ValuesIn(text) == {text[k] : k \in 3..Len(text)}

\* The metrics read by the conjuncts and disjuncts that hold when the rule
\* with this label fires on m.
Triggering(label, m) ==
    CASE label = "GodClass" ->
             {"WMC", "LOC"}
                 \cup (IF m.FIELDS > 12 THEN {"FIELDS"} ELSE {})
                 \cup (IF m.ATFD > 4 THEN {"ATFD"} ELSE {})
      [] label = "LongMethod"  -> {"MAX_METHOD_LOC"}
      [] label = "DataClass"   -> {"FIELDS", "METHODS", "WMC", "MAX_METHOD_LOC"}
      [] label = "DeadCode"    -> {"PRIVATE_METHODS", "METHODS"}
      [] label = "FeatureEnvy" -> {"ATFD", "TCC", "WMC"}

\* C21: the message of every finding holds the value of every metric that
\* triggered its rule, e.g. the value of ATFD when GodClass fires through
\* ATFD > 4 with FIELDS <= 12.
C21_AsStated ==
    Returned =>
        \A i \in DOMAIN detected :
            \A key \in Triggering(detected[i].smell_label, metrics) :
                metrics[key] \in ValuesIn(detected[i].text)

\* The severity each rule gives its findings.
SeverityOf(label) ==
    CASE label = "GodClass"    -> "MAJOR"
      [] label = "LongMethod"  -> "MAJOR"
      [] label = "DataClass"   -> "MINOR"
      [] label = "DeadCode"    -> "MINOR"
      [] label = "FeatureEnvy" -> "MAJOR"

DocstringGodClass(m) == m.WMC > 20 /\ m.LOC > 150 /\ m.ATFD > 5

BodyOf(k) == SubSeq(raw, spans[k][1], spans[k][2])

\* The number of lines of a body that the filter of LOC counts.
LocFiltered(body) ==
    Cardinality({i \in DOMAIN split(body) : Counted(split(body)[i])})

\* The largest member of a set of numbers, 0 for the empty set.
Largest(S) == IF S = {} THEN 0 ELSE CHOOSE x \in S : \A y \in S : y <= x

\* C25: MAX_METHOD_LOC is the maximum over the extracted bodies of the
\* number of the body's lines that, trimmed, are non-empty and do not start
\* with "//", "*" or "/*" (the filter of LOC), and 0 when no body is
\* extracted.
C25_AsStated ==
    Extracted =>
        metrics.MAX_METHOD_LOC =
            Largest({LocFiltered(BodyOf(k)) : k \in DOMAIN spans})

\* The identifiers captured by the field pattern that occur in more than
\* one extracted body.
SharedFields ==
    {j \in DOMAIN field_pattern_findall(raw) :
        Cardinality({k \in DOMAIN spans :
            Contains(BodyOf(k), field_pattern_findall(raw)[j])}) > 1}

\* C26: LCOM is 0 when METHODS < 2 or FIELDS = 0, and otherwise
\* max(0, METHODS - sharedFieldCount), sharedFieldCount being the number of
\* declared private fields whose identifier occurs as a substring in more
\* than one extracted method body.
C26_AsStated ==
    Extracted =>
        metrics.LCOM =
            IF metrics.METHODS < 2 \/ metrics.FIELDS = 0 THEN 0
            ELSE IF metrics.METHODS - Cardinality(SharedFields) > 0
                   THEN metrics.METHODS - Cardinality(SharedFields)
            ELSE 0

\* The positions of the visibility keyword of the headers counted in
\* METHODS: the keyword is separated from the start of its line by
\* whitespace only, and a type, a name and "(" follow it.
CountedHeaders ==
    {RunEnd(raw, i, Space) : i \in {j \in 1..Len(raw) : MethodAt(raw, j).end # 0}}

\* The brace that opens the body of the header at position a: the first of
\* "{", ";" and "}" after the ")" that closes its parameter list, when it is
\* "{"; 0 when the header has no body.
BraceAfter(a) ==
    LET h == HeaderAt(raw, a)
        p == Find(raw, h.paren + 1, ")")
        stops == {b \in (p + 1)..Len(raw) : raw[b] \in {"{", ";", "}"}}
        b == CHOOSE x \in stops : \A y \in stops : x <= y
    IN  IF stops = {} \/ raw[b] # "{" THEN 0 ELSE b

\* C27: the bodies scanned are exactly the bodies of the headers counted in
\* METHODS: every measured body belongs to a counted header, every counted
\* header with a brace-delimited body is measured, and METHODS = 0 implies
\* MAX_METHOD_LOC = 0.
C27_AsStated ==
    Extracted =>
        /\ \A k \in DOMAIN spans :
              \E a \in CountedHeaders : BraceAfter(a) = spans[k][1]
        /\ \A a \in CountedHeaders :
              BraceAfter(a) # 0 => \E k \in DOMAIN spans : spans[k][1] = BraceAfter(a)
        /\ metrics.METHODS = 0 => metrics.MAX_METHOD_LOC = 0

\* C29: every extracted body starts with its opening brace and so counts at
\* least 1 line: MAX_METHOD_LOC >= 1 exactly when a header with an opening
\* brace is matched and 0 exactly when none is; an empty body "{}" and an
\* unterminated body, which is the brace alone, measure 1.
C29_BodyCountsItsBrace ==
    Extracted =>
        /\ \A k \in DOMAIN spans :
              /\ raw[spans[k][1]] = "{"
              /\ BodyLoc(BodyOf(k)) >= 1
              /\ Unterminated(raw, spans[k][1]) => BodyOf(k) = <<"{">>
              /\ BodyOf(k) \in {<<"{">>, <<"{", "}">>} => BodyLoc(BodyOf(k)) = 1
        /\ metrics.MAX_METHOD_LOC >= 1 <=> spans # <<>>
        /\ metrics.MAX_METHOD_LOC = 0 <=> spans = <<>>
        /\ (\A k \in DOMAIN spans : BodyOf(k) \in {<<"{">>, <<"{", "}">>}) =>
              metrics.MAX_METHOD_LOC = IF spans = <<>> THEN 0 ELSE 1

\* An empty body and an unterminated one in the same unit.
C29_Witness ==
    /\ Extracted
    /\ raw = Join(<<LnEmptyMethod, LnMethodOpen>>)
    /\ Len(spans) = 2
    /\ BodyOf(1) = <<"{", "}">>
    /\ Unterminated(raw, spans[2][1])
    /\ metrics.MAX_METHOD_LOC = 1

(***************************************************************************)
(* Properties of the findings of a run and of the dataset built from them  *)
(* (checked under SpecRun).                                                *)
(***************************************************************************)
\* The findings of a file of the disk, from the file alone: none for a file
\* that cannot be opened.
FindingsOf(f) ==
    IF disk.files[f].readable THEN detect_smells(RecordOn(f)) ELSE <<>>

\* C22: predicted_smell of build_dataset is, for every file, the label of the
\* first finding of the file in the evaluation order GodClass, LongMethod,
\* DataClass, DeadCode, FeatureEnvy, and it is "Clean" exactly when the file
\* has no finding.
C22_FirstFindingOrClean ==
    pc = "dataset" =>
        \A n \in DOMAIN dataset :
            LET found == FindingsOf(dataset[n].file_path)
                labels == {found[k].smell_label : k \in DOMAIN found}
                predicted == dataset[n].predicted_smell
            IN  /\ predicted = "Clean" <=> found = <<>>
                /\ found # <<>> =>
                      /\ predicted = found[1].smell_label
                      /\ \A label \in labels : Rank(predicted) <= Rank(label)

\* A file with the findings DeadCode and FeatureEnvy, and a file with none.
C22_Witness ==
    /\ pc = "dataset"
    /\ Len(dataset) = 2
    /\ dataset[1].file_path = JavaPool[1]
    /\ Len(FindingsOf(JavaPool[1])) = 2
    /\ dataset[1].predicted_smell = "DeadCode"
    /\ dataset[1].sonar = <<0, 1, 0, 0, 1>>
    /\ dataset[2].predicted_smell = "Clean"

\* The record run_on_project appends for a file, from the file alone.
FreshRecord(f) == WithProject(RecordOn(f), projects[ProjectOf(f)])

\* The issues run_sonar_on_project appends for a file, from the file alone.
FreshIssues(f) ==
    LET smells == detect_smells(RecordOn(f))
    IN  [k \in DOMAIN smells |->
            MakeIssue(projects[ProjectOf(f)], f, RecordOn(f), smells[k])]

\* The issues of a list that are about the file f, in the order of the list.
IssuesOf(list, f) ==
    LET OfFile(issue) == issue.file_path = f
    IN  SelectSeq(list, OfFile)

KeysDistinct(rows) ==
    \A n, m \in DOMAIN rows :
        n # m => /\ rows[n].key # rows[m].key
                 /\ ~(/\ rows[n].file_path = rows[m].file_path
                      /\ rows[n].rule = rows[m].rule)

\* C30: in the findings output of a project the issue keys
\* project:relative-path:rule are pairwise distinct, no file has two issues
\* of one rule, and total is the number of issues, in every order of the
\* walk and whatever files were skipped.
C30_KeysDistinct ==
    script = "sonar_detector" =>
        /\ KeysDistinct(issues)
        /\ \A w \in DOMAIN written :
              /\ written[w].total = Len(written[w].rows)
              /\ KeysDistinct(written[w].rows)

\* The output of project p: two issues of p/B.java and one of p/A.java, of
\* the rule of one of the two.
C30_Witness ==
    /\ script = "sonar_detector"
    /\ Len(written) >= 1
    /\ written[1].file = <<projects[1], "_sonar.json">>
    /\ written[1].total = 3
    /\ Cardinality({written[1].rows[n].file_path : n \in 1..3}) = 2
    /\ Cardinality({written[1].rows[n].rule : n \in 1..3}) = 2
    /\ Cardinality({written[1].rows[n].key : n \in 1..3}) = 3
====
